---- MODULE Spec2Model ----
(***************************************************************************)
(* The VoidEngine of oracle-voice (src/index.tsx): a streaming analytics   *)
(* engine fed by a websocket with trade prints and order-book deltas.      *)
(* The source holds two near-identical copies of the class; the model      *)
(* carries both as `variant` ("A": lines 562-741, "B": lines 766-929).     *)
(*                                                                         *)
(* Numbers.  JavaScript numbers are modelled as exact values:              *)
(*   - prices are integers;                                                *)
(*   - trade quantities and kinetic are integers counted in 1/QtyScale;    *)
(*   - book quantities are integers (only their ratio is ever used);       *)
(*   - timestamps are integer milliseconds (Date.now()), so the code's     *)
(*     `t.t > t_now - 3` on seconds is `t > now - 3 * MsPerSec` here;      *)
(*   - pressure, elasticity and the imbalance samples are rationals        *)
(*     <<n, d>> in lowest terms with d > 0;                                *)
(*   - Math.sqrt is never evaluated: `volatility < c` is decided as        *)
(*     `variance < c * c`, both sides being non-negative.                  *)
(* Rounding of IEEE doubles is therefore outside the model.  NaN, which    *)
(* parseFloat gives for a non-numeric string, is PriceNaN as a price and   *)
(* RatNaN as a rational; every comparison with it is false.                *)
(*                                                                         *)
(* Objects.  state.titans is a reference: the index in `arrays` of the     *)
(* array object it points to (a row belongs to one array only, so rows     *)
(* are held inside their array).  `{...this.state}` copies the fields,     *)
(* hence copies that reference: `snaps` holds every snapshot object        *)
(* handed to the subscriber, `voidState` is the subscriber's own copy.     *)
(* `issued[i]` records what snaps[i] held, rows included, when it was      *)
(* handed out.  `sockets` are the WebSocket objects created so far, `ws`   *)
(* the index of the one in this.ws, `via` the one whose onmessage ran last.*)
(***************************************************************************)
EXTENDS Integers, Sequences, FiniteSets, TLC

VARIABLES variant, state, trades, book_bids, book_asks, imbalance_hist,
          now, msg, published, log, steps,
          arrays, snaps, issued, voidState, ws, sockets, via

vars == <<variant, state, trades, book_bids, book_asks, imbalance_hist,
          now, msg, published, log, steps,
          arrays, snaps, issued, voidState, ws, sockets, via>>

----------------------------------------------------------------------------
(* Exact arithmetic *)

Abs(x) == IF x < 0 THEN -x ELSE x

Sign(x) == IF x < 0 THEN -1 ELSE IF x > 0 THEN 1 ELSE 0

RECURSIVE Gcd(_, _)
Gcd(a, b) == IF b = 0 THEN a ELSE Gcd(b, a % b)

Lcm(a, b) == (a \div Gcd(a, b)) * b

\* n / d (d # 0) in lowest terms with a positive denominator
Rat(n, d) ==
    LET g == Gcd(Abs(n), Abs(d))
    IN  <<(Sign(d) * n) \div g, Abs(d) \div g>>

Zero == <<0, 1>>

\* NaN as a rational: the only pair with denominator 0
RatNaN == <<0, 0>>

IsNaN(r) == r[2] = 0

RAbs(r) == <<Abs(r[1]), r[2]>>

RMul(a, b) == Rat(a[1] * b[1], a[2] * b[2])

\* n1/d1 < n2/d2 for n1, n2 >= 0 and d1, d2 > 0, by comparing the integer parts
\* and then the reciprocals of the fractional parts (no cross product is formed)
RECURSIVE FracLess(_, _, _, _)
FracLess(n1, d1, n2, d2) ==
    LET q1 == n1 \div d1
        q2 == n2 \div d2
        r1 == n1 % d1
        r2 == n2 % d2
    IN  IF q1 # q2 THEN q1 < q2
        ELSE IF r2 = 0 THEN FALSE
        ELSE IF r1 = 0 THEN TRUE
        ELSE FracLess(d2, r2, d1, r1)

\* a < b on rationals
RLt(a, b) ==
    IF IsNaN(a) \/ IsNaN(b) THEN FALSE
    ELSE IF a[1] < 0 /\ b[1] >= 0 THEN TRUE
    ELSE IF a[1] >= 0 /\ b[1] < 0 THEN FALSE
    ELSE IF a[1] >= 0 THEN FracLess(a[1], a[2], b[1], b[2])
    ELSE FracLess(-b[1], b[2], -a[1], a[2])

RGt(a, b) == RLt(b, a)

RLe(a, b) == ~IsNaN(a) /\ ~IsNaN(b) /\ ~RLt(b, a)

SetMax(S) == CHOOSE x \in S : \A y \in S : y <= x

SetMin(S) == CHOOSE x \in S : \A y \in S : x <= y

\* sum of f[i] for i in lo..hi, by halving the range
RECURSIVE SumRange(_, _, _)
SumRange(f, lo, hi) ==
    IF lo > hi THEN 0
    ELSE IF lo = hi THEN f[lo]
    ELSE LET mid == (lo + hi) \div 2
         IN  SumRange(f, lo, mid) + SumRange(f, mid + 1, hi)

\* the last n elements of s (Array.prototype.slice(-n))
SliceLast(s, n) ==
    IF Len(s) <= n THEN s ELSE SubSeq(s, Len(s) - n + 1, Len(s))

----------------------------------------------------------------------------
(* Program constants *)

QtyScale == 10000

\* parseFloat of a non-numeric price: NaN, carried as a number no price takes
PriceNaN == -1

MsPerSec == 1000

TRADE_CAP == 1000

KINETIC_WINDOW_SEC == 3

HIST_CAP == 120

REGIME_MIN_SAMPLES == 10

ELASTICITY_SCALE == 10000

\* the two copies of the class with their windows exchanged
MicroWindow_Swapped(v) == IF v = "A" THEN 15 ELSE 20

\* the micro-burst window: slice(-20) in variant A, slice(-15) in variant B
MicroWindow(v) == IF v = "A" THEN 20 ELSE 15

\* micro_vol > 0.01
VolumeFloor == <<1, 100>>

\* Math.abs(k) > 50
KineticThreshold == <<50, 1>>

\* Math.abs(p) > 0.3
PressureThreshold == <<3, 10>>

\* Math.abs(e) > 2.0
ElasticityThreshold == <<2, 1>>

\* volatility < 0.1
LowVolatility == <<1, 10>>

\* volatility < 0.35 in variant A, volatility < 0.4 in variant B
HighVolatility(v) == IF v = "A" THEN <<35, 100>> ELSE <<4, 10>>

Calculating == "CALCULATING"

Stagnant(v) == IF v = "A" THEN "STAGNATION" ELSE "STAGNANT"

Stable(v) == IF v = "A" THEN "EQUILIBRIUM" ELSE "STABLE"

Volatile(v) == IF v = "A" THEN "VOLATILITY" ELSE "VOLATILE"

----------------------------------------------------------------------------
(* VoidEngine.processTrade *)

\* a buffer that drops the newest trade (pop) where the code drops the oldest
PushTrade_DropNewest(trs, tr) ==
    LET s == Append(trs, tr)
    IN  IF Len(s) > TRADE_CAP THEN SubSeq(s, 1, TRADE_CAP) ELSE s

\* this.trades.push(...); if (this.trades.length > 1000) this.trades.shift()
PushTrade(trs, tr) ==
    LET s == Append(trs, tr)
    IN  IF Len(s) > TRADE_CAP THEN Tail(s) ELSE s

\* a window that also takes the trade exactly 3 s old
InWindow_Inclusive(tr, t_now) == tr.t >= t_now - KINETIC_WINDOW_SEC * MsPerSec

\* t => t.t > t_now - 3
InWindow(tr, t_now) == tr.t > t_now - KINETIC_WINDOW_SEC * MsPerSec

\* buy_vol - sell_vol over this.trades.filter(t => t.t > t_now - 3)
Kinetic(trs, t_now) ==
    LET buy  == [i \in 1..Len(trs) |->
                    IF InWindow(trs[i], t_now) /\ trs[i].b THEN trs[i].q ELSE 0]
        sell == [i \in 1..Len(trs) |->
                    IF InWindow(trs[i], t_now) /\ ~trs[i].b THEN trs[i].q ELSE 0]
        buy_vol  == SumRange(buy, 1, Len(trs))
        sell_vol == SumRange(sell, 1, Len(trs))
    IN  buy_vol - sell_vol

\* a variant B without its else branch
ThinVolume_AlwaysHold(v, prev) == prev

\* what variant B assigns when micro_vol <= 0.01; variant A has no else branch
ThinVolume(v, prev) == IF v = "A" THEN prev ELSE Zero

\* the LQ block: micro = this.trades.slice(-N), price delta over summed volume
Elasticity(v, trs, prev) ==
    LET micro == SliceLast(trs, MicroWindow(v))
        n     == Len(micro)
        micro_price_delta == micro[n].p - micro[1].p
        delta_is_nan == micro[n].p = PriceNaN \/ micro[1].p = PriceNaN
        micro_vol == SumRange([i \in 1..n |-> micro[i].q], 1, n)
    IN  IF n > 1
        THEN IF RGt(Rat(micro_vol, QtyScale), VolumeFloor)
             THEN IF delta_is_nan THEN RatNaN
                  ELSE Rat(micro_price_delta * ELASTICITY_SCALE * QtyScale,
                           micro_vol)
             ELSE ThinVolume(v, prev)
        ELSE prev

\* a processTrade that moves the price only upwards
ProcessTrade_OnlyRaisesPrice(v, st, trs, p, q, is_buyer_maker, t_now) ==
    LET is_buyer == ~is_buyer_maker
        trs2 == PushTrade(trs, [p |-> p, q |-> q, b |-> is_buyer, t |-> t_now])
    IN  [state  |-> [st EXCEPT !.price = IF p > st.price THEN p ELSE st.price,
                               !.void_kinetic = Kinetic(trs2, t_now),
                               !.void_elasticity =
                                   Elasticity(v, trs2, st.void_elasticity)],
         trades |-> trs2]

\* processTrade(p, q, is_buyer_maker) called at clock value t_now:
\* the new state record and the new trade buffer
ProcessTrade(v, st, trs, p, q, is_buyer_maker, t_now) ==
    LET is_buyer == ~is_buyer_maker
        trs2 == PushTrade(trs, [p |-> p, q |-> q, b |-> is_buyer, t |-> t_now])
    IN  [state  |-> [st EXCEPT !.price = p,
                               !.void_kinetic = Kinetic(trs2, t_now),
                               !.void_elasticity =
                                   Elasticity(v, trs2, st.void_elasticity)],
         trades |-> trs2]

----------------------------------------------------------------------------
(* VoidEngine.processBook *)

EmptyMap == [x \in {} |-> 0]

MapSet(m, p, q) == [x \in (DOMAIN m) \cup {p} |-> IF x = p THEN q ELSE m[x]]

MapDelete(m, p) == [x \in (DOMAIN m) \ {p} |-> m[x]]

\* an update that stores the zero quantity where the code deletes the level
ApplyLevel_KeepZero(m, p, q) == MapSet(m, p, q)

\* if (qty === 0) map.delete(price); else map.set(price, qty)
ApplyLevel(m, p, q) == IF q = 0 THEN MapDelete(m, p) ELSE MapSet(m, p, q)

\* side.forEach(([p, q]) => ...): the updates of one side, in order
RECURSIVE ApplySide(_, _)
ApplySide(m, ups) ==
    IF ups = <<>> THEN m
    ELSE ApplySide(ApplyLevel(m, Head(ups)[1], Head(ups)[2]), Tail(ups))

\* the OBI ratio at the best bid (largest key) and the best ask (smallest key);
\* stored quantities are never 0, so `get(best) || 0` is the stored quantity
BookRatio(bids, asks) ==
    LET best_bid == SetMax(DOMAIN bids)
        best_ask == SetMin(DOMAIN asks)
        l1_bid_vol == bids[best_bid]
        l1_ask_vol == asks[best_ask]
        denominator == l1_bid_vol + l1_ask_vol
    IN  IF denominator > 0
        THEN Rat(l1_bid_vol - l1_ask_vol, denominator)
        ELSE Zero

\* a history that is never trimmed
PushSample_NoEvict(hist, ratio) == Append(hist, ratio)

\* this.imbalance_hist.push(ratio); if (length > 120) this.imbalance_hist.shift()
PushSample(hist, ratio) ==
    LET s == Append(hist, ratio)
    IN  IF Len(s) > HIST_CAP THEN Tail(s) ELSE s

\* if (this.book_bids.size === 0 || this.book_asks.size === 0) return
BookOneSided(bids, asks) == (DOMAIN bids = {}) \/ (DOMAIN asks = {})

\* a processBook that zeroes pressure when a side is empty
ProcessBook_ResetWhenOneSided(bidMap, askMap, hist, pressure, bids, asks) ==
    LET b2 == ApplySide(bidMap, bids)
        a2 == ApplySide(askMap, asks)
    IN  IF BookOneSided(b2, a2)
        THEN [book_bids |-> b2, book_asks |-> a2,
              void_pressure |-> Zero, imbalance_hist |-> hist]
        ELSE [book_bids |-> b2, book_asks |-> a2,
              void_pressure |-> BookRatio(b2, a2),
              imbalance_hist |-> PushSample(hist, BookRatio(b2, a2))]

\* processBook(bids, asks): the new maps, pressure and imbalance history
ProcessBook(bidMap, askMap, hist, pressure, bids, asks) ==
    LET b2 == ApplySide(bidMap, bids)
        a2 == ApplySide(askMap, asks)
    IN  IF BookOneSided(b2, a2)
        THEN [book_bids |-> b2, book_asks |-> a2,
              void_pressure |-> pressure, imbalance_hist |-> hist]
        ELSE [book_bids |-> b2, book_asks |-> a2,
              void_pressure |-> BookRatio(b2, a2),
              imbalance_hist |-> PushSample(hist, BookRatio(b2, a2))]

----------------------------------------------------------------------------
(* VoidEngine.updateRegime *)

RECURSIVE SetLcm(_)
SetLcm(S) ==
    IF S = {} THEN 1
    ELSE LET x == CHOOSE y \in S : TRUE IN Lcm(x, SetLcm(S \ {x}))

\* a denominator common to all samples, and the samples' numerators over it
CommonDen(hist) == SetLcm({hist[i][2] : i \in 1..Len(hist)})

Numerators(hist, L) == [i \in 1..Len(hist) |-> hist[i][1] * (L \div hist[i][2])]

\* mean = reduce((a, b) => a + b, 0) / n
Mean(hist) ==
    LET n == Len(hist)
        L == CommonDen(hist)
    IN  Rat(SumRange(Numerators(hist, L), 1, n), n * L)

\* variance = reduce((a, b) => a + Math.pow(b - mean, 2), 0) / n, where
\* b - mean = (n * a[i] - S) / (n * L) for b = a[i] / L and mean = S / (n * L)
Variance(hist) ==
    LET n == Len(hist)
        L == CommonDen(hist)
        a == Numerators(hist, L)
        S == SumRange(a, 1, n)
        sq == [i \in 1..n |-> (n * a[i] - S) * (n * a[i] - S)]
    IN  Rat(SumRange(sq, 1, n), n * (n * L) * (n * L))

\* a comparison that takes a volatility equal to the threshold as below it
VolatilityBelow_Inclusive(variance, c) == RLe(variance, RMul(c, c))

\* Math.sqrt(variance) < c, for c > 0
VolatilityBelow(variance, c) == RLt(variance, RMul(c, c))

\* a classifier that starts at the tenth sample
RegimeActive_AtTen(hist) == Len(hist) >= REGIME_MIN_SAMPLES

\* if (this.imbalance_hist.length > 10)
RegimeActive(hist) == Len(hist) > REGIME_MIN_SAMPLES

\* the if / else if / else chain over volatility
Classify(v, variance) ==
    IF VolatilityBelow(variance, LowVolatility) THEN Stagnant(v)
    ELSE IF VolatilityBelow(variance, HighVolatility(v)) THEN Stable(v)
    ELSE Volatile(v)

\* updateRegime(): the new domain_state
UpdateRegime(v, hist, domain_state) ==
    IF RegimeActive(hist) THEN Classify(v, Variance(hist)) ELSE domain_state

----------------------------------------------------------------------------
(* VoidEngine.calculateMonolith *)

\* variant B's signal guards: e < 0.5, e > 2.0, e > -0.5, e < -2.0
TrapCeiling == <<1, 2>>

\* a break floor below the trap ceiling
BreakFloor_BelowTrapCeiling == <<1, 4>>

BreakFloor == <<2, 1>>

\* Number.prototype.toFixed(digits) of x = n / d: the sign, and the magnitude
\* rounded to the nearest multiple of 10^-digits (a tie goes to the larger one)
RECURSIVE Pow10(_)
Pow10(k) == IF k = 0 THEN 1 ELSE 10 * Pow10(k - 1)

ToFixed(r, digits) ==
    LET n == Abs(r[1])
        d == r[2]
        whole == n \div d
        frac  == n % d
    IN  IF IsNaN(r)
        THEN [text |-> "NaN", neg |-> FALSE, digits |-> 0, mag |-> 0]
        ELSE [text |-> "", neg |-> r[1] < 0, digits |-> digits,
              mag |-> whole * Pow10(digits)
                         + (2 * frac * Pow10(digits) + d) \div (2 * d)]

Text(str) == [text |-> str, neg |-> FALSE, digits |-> 0, mag |-> 0]

Row(name, value, active) == [name |-> name, value |-> value, active |-> active]

B2N(b) == IF b THEN 1 ELSE 0

\* a flow factor that is also met when the net flow is zero
CtdActive_FlowOrRest(k) ==
    k = 0 \/ RGt(Rat(Abs(k), QtyScale), KineticThreshold)

\* const ctd_active = Math.abs(k) > 50
CtdActive(k) == RGt(Rat(Abs(k), QtyScale), KineticThreshold)

\* const obi_active = Math.abs(p) > 0.3
ObiActive(p) == RGt(RAbs(p), PressureThreshold)

\* const lq_active = Math.abs(e) > 2.0
LqActive(e) == RGt(RAbs(e), ElasticityThreshold)

\* const regime_active = d === "VOLATILITY" (variant B: "VOLATILE")
RegimeIsVolatile(v, d) == d = Volatile(v)

\* an alignment factor that forgets the sell side
WaActive_BuySideOnly(k, p) == k > 0 /\ p[1] > 0

\* const wa_active = (k > 0 && p > 0) || (k < 0 && p < 0)   (variant A only)
WaActive(k, p) == (k > 0 /\ p[1] > 0) \/ (k < 0 /\ p[1] < 0)

\* let stars = 0; if (..._active) stars++; ... over the factors' flags
\* (variant B has no fifth factor)
StarCount(v, ctd, obi, lq, regime, wa) ==
    B2N(ctd) + B2N(obi) + B2N(lq) + B2N(regime)
        + (IF v = "A" THEN B2N(wa) ELSE 0)

Stars(v, k, p, e, d) ==
    StarCount(v, CtdActive(k), ObiActive(p), LqActive(e),
              RegimeIsVolatile(v, d), WaActive(k, p))

\* a verdict that executes only above four stars
StarSignal_AboveFour(stars, k) ==
    IF stars > 4 THEN (IF k > 0 THEN "EXECUTE LONG" ELSE "EXECUTE SHORT")
    ELSE IF stars = 3 THEN "PREPARE"
    ELSE "STANDBY"

\* variant A's verdict from the star count
StarSignal(stars, k) ==
    IF stars >= 4 THEN (IF k > 0 THEN "EXECUTE LONG" ELSE "EXECUTE SHORT")
    ELSE IF stars = 3 THEN "PREPARE"
    ELSE "STANDBY"

\* a guard chain that tests the size of kinetic where the code tests its sign
TrapBreakSignal_AbsKinetic(k, e) ==
    LET kr == Rat(Abs(k), QtyScale)
    IN  IF RGt(kr, KineticThreshold) /\ RLt(e, TrapCeiling) THEN "SHORT (TRAP)"
        ELSE IF RGt(kr, KineticThreshold) /\ RGt(e, BreakFloor) THEN "LONG (BREAK)"
        ELSE "OBSERVE"

\* variant B's guard chain over raw kinetic and elasticity
TrapBreakSignal(k, e) ==
    LET kr == Rat(k, QtyScale)
        neg(r) == <<-r[1], r[2]>>
    IN  IF RGt(kr, KineticThreshold) /\ RLt(e, TrapCeiling) THEN "SHORT (TRAP)"
        ELSE IF RGt(kr, KineticThreshold) /\ RGt(e, BreakFloor) THEN "LONG (BREAK)"
        ELSE IF RLt(kr, neg(KineticThreshold)) /\ RGt(e, neg(TrapCeiling))
             THEN "LONG (TRAP)"
        ELSE IF RLt(kr, neg(KineticThreshold)) /\ RLt(e, neg(BreakFloor))
             THEN "SHORT (BREAK)"
        ELSE "OBSERVE"

\* the signals of variant B's four guards, in the order of the chain
GuardSignals ==
    << "SHORT (TRAP)", "LONG (BREAK)", "LONG (TRAP)", "SHORT (BREAK)" >>

\* the condition of the i-th guard of the chain, on its own
GuardHolds(i, k, e) ==
    LET kr == Rat(k, QtyScale)
        neg(r) == <<-r[1], r[2]>>
    IN  CASE i = 1 -> RGt(kr, KineticThreshold) /\ RLt(e, TrapCeiling)
          [] i = 2 -> RGt(kr, KineticThreshold) /\ RGt(e, BreakFloor)
          [] i = 3 -> RLt(kr, neg(KineticThreshold)) /\ RGt(e, neg(TrapCeiling))
          [] i = 4 -> RLt(kr, neg(KineticThreshold)) /\ RLt(e, neg(BreakFloor))

Signal(v, stars, k, e) ==
    IF v = "A" THEN StarSignal(stars, k) ELSE TrapBreakSignal(k, e)

\* this.state.titans = [...]
Titans(v, k, p, e) ==
    IF v = "A"
    THEN << Row("CTD (Kinetic)", ToFixed(Rat(k, QtyScale), 1), CtdActive(k)),
            Row("OBI (Pressure)", ToFixed(p, 2), ObiActive(p)),
            Row("LQ  (Elasticity)", ToFixed(e, 2), LqActive(e)),
            Row("BASIS", Text("0.01%"), TRUE),
            Row("WA  (Whale)",
                IF WaActive(k, p) THEN Text("DETECTED") ELSE Text("---"),
                WaActive(k, p)) >>
    ELSE << Row("CTD (Kinetic)", ToFixed(Rat(k, QtyScale), 1), CtdActive(k)),
            Row("OBI (Pressure)", ToFixed(p, 2), ObiActive(p)),
            Row("LQ  (Elasticity)", ToFixed(e, 2), LqActive(e)),
            Row("BASIS", Text("---"), FALSE),
            Row("WA", Text("---"), FALSE) >>

\* calculateMonolith(): monolith_stars, titans and signal from the four metrics
CalculateMonolith(v, st) ==
    LET k == st.void_kinetic
        p == st.void_pressure
        e == st.void_elasticity
        d == st.domain_state
        stars == Stars(v, k, p, e, d)
    IN  [st EXCEPT !.monolith_stars = stars,
                   !.titans = Titans(v, k, p, e),
                   !.signal = Signal(v, stars, k, e)]

\* a handler that computes the verdict before it updates the regime
Recompute_VerdictBeforeRegime(v, st, hist) ==
    [CalculateMonolith(v, st) EXCEPT
         !.domain_state = UpdateRegime(v, hist, st.domain_state)]

\* this.updateRegime(); this.calculateMonolith();
Recompute(v, st, hist) ==
    CalculateMonolith(v,
        [st EXCEPT !.domain_state = UpdateRegime(v, hist, st.domain_state)])

----------------------------------------------------------------------------
(* The state after construction *)

InitialTitans(v) ==
    IF v = "A"
    THEN << Row("CTD (Kinetic)", Text("0"), FALSE),
            Row("OBI (Pressure)", Text("0.0"), FALSE),
            Row("LQ  (Elasticity)", Text("0.0"), FALSE),
            Row("BASIS", Text("0.0%"), TRUE),
            Row("WA  (Volume)", Text("---"), FALSE) >>
    ELSE << >>

InitialState(v) ==
    [price |-> 0, void_elasticity |-> Zero, void_pressure |-> Zero,
     void_kinetic |-> 0, domain_state |-> Calculating, signal |-> "STANDBY",
     monolith_stars |-> 0, titans |-> InitialTitans(v)]

NoMessage == [stream |-> "none"]

----------------------------------------------------------------------------
(* Messages the websocket can deliver, and the clock *)

\* the number of messages delivered after the initial state
MaxSteps == 2

Variants == {"A", "B"}

TradePrices == {100, 101}

\* 0.0001 and 60
TradeQuantities == {1, 60 * QtyScale}

\* milliseconds by which Date.now() has advanced when a trade is handled
ClockSteps == {0, 1500}

BidPrices == {99, 100}

AskPrices == {101, 102}

\* "0" is the removal sentinel; parseFloat accepts a signed decimal
BookQuantities == {0, 3, 7, -5}

\* the [price, quantity] pairs of one side of a depth message
SideUpdates(prices) ==
    {<< >>} \cup {<< <<p, q>> >> : p \in prices, q \in BookQuantities}

\* the <<bids, asks>> of the depth messages: an update of one side, or a
\* refresh of the best level of both sides
DepthUpdates ==
    {<<b, << >>>> : b \in SideUpdates(BidPrices)}
        \cup {<<<< >>, a>> : a \in SideUpdates(AskPrices)}
        \cup {<< << <<SetMax(BidPrices), qb>> >>, << <<SetMin(AskPrices), qa>> >> >> :
                 qb \in {q \in BookQuantities : q > 0},
                 qa \in {q \in BookQuantities : q > 0}}

TradeMessage(p, q, m) == [stream |-> "aggTrade", p |-> p, q |-> q, m |-> m]

DepthMessage(b, a) == [stream |-> "depth", b |-> b, a |-> a]

OtherMessage == [stream |-> "other"]

\* the record processTrade pushes for a trade message handled at t_now
TradeOf(m, t_now) == [p |-> m.p, q |-> m.q, b |-> ~m.m, t |-> t_now]

----------------------------------------------------------------------------
(* Initial states: the state after construction, and states the engine is  *)
(* in after a run of messages (given in closed form)                       *)

\* the ratio of a book whose best levels hold 7 against 3
Skew == Rat(7 - 3, 7 + 3)

NegSkew == <<-Skew[1], Skew[2]>>

\* an imbalance history of `neg` samples -2/5, then `zero` samples 0, then
\* `pos` samples 2/5: the samples of neg deltas that left the best levels at
\* 3 against 7, zero deltas that left 3 against 3, pos that left 7 against 3
WarmHist(neg, zero, pos) ==
    [i \in 1..(neg + zero + pos) |->
        IF i <= neg THEN NegSkew ELSE IF i <= neg + zero THEN Zero ELSE Skew]

\* the book behind the last sample of a warm history
WarmBids(last) == IF last = Skew THEN (100 :> 7) ELSE (100 :> 3)

WarmAsks(last) == IF last = NegSkew THEN (101 :> 7) ELSE (101 :> 3)

\* <<neg, zero, pos>>: a history one sample short of the regime threshold
\* (and two short of volatility exactly 0.4), and one of volatility 0.4
WarmScenarios == { <<5, 0, 5>>, <<6, 0, 6>> }

\* a history one sample short of the capacity
CapacityScenarios == { <<1, 78, 40>> }

\* histories one sample short of volatility exactly 0.1, 0.25 and 0.35
ThresholdScenarios == { <<1, 30, 0>>, <<9, 38, 16>>, <<21, 14, 28>> }

\* GdmLiveAudio.voidState before the first callback
InitialVoidState(ref) ==
    [price |-> 0, void_elasticity |-> Zero, void_pressure |-> Zero,
     void_kinetic |-> 0, domain_state |-> "---", signal |-> "WAITING",
     monolith_stars |-> 0, titans |-> ref]

\* the engine after `new VoidEngine(...)` and the connect() of firstUpdated()
InitCold ==
    /\ variant \in Variants
    /\ state = [InitialState(variant) EXCEPT !.titans = 1]
    /\ arrays = << InitialTitans(variant), << >> >>
    /\ snaps = << >>
    /\ issued = << >>
    /\ voidState = InitialVoidState(2)
    /\ ws = 1
    /\ sockets = << "open" >>
    /\ via = 0
    /\ trades = << >>
    /\ book_bids = EmptyMap
    /\ book_asks = EmptyMap
    /\ imbalance_hist = << >>
    /\ now = 0
    /\ msg = NoMessage
    /\ published = << >>
    /\ log = << >>
    /\ steps = 0

InitAfterDepths(scenarios) ==
    \E v \in Variants, sc \in scenarios :
        LET hist == WarmHist(sc[1], sc[2], sc[3])
            last == hist[Len(hist)]
            st   == Recompute(v, [InitialState(v) EXCEPT !.void_pressure = last],
                              hist)
        IN  /\ variant = v
            /\ state = [st EXCEPT !.titans = 1]
            /\ arrays = << st.titans >>
            /\ snaps = << state >>
            /\ issued = << st >>
            /\ voidState = state
            /\ ws = 1
            /\ sockets = << "open" >>
            /\ via = 1
            /\ trades = << >>
            /\ book_bids = WarmBids(last)
            /\ book_asks = WarmAsks(last)
            /\ imbalance_hist = hist
            /\ now = 0
            /\ msg = DepthMessage(<< >>, << >>)
            /\ published = << state >>
            /\ log = << >>
            /\ steps = 0

InitWarm == InitAfterDepths(WarmScenarios)

Init == InitCold \/ InitWarm

InitCapacity == InitAfterDepths(CapacityScenarios)

InitThresholds == InitAfterDepths(ThresholdScenarios)

\* the i-th trade of a burst: one trade every 2 ms, two buys to one sell
BurstMessage(i) == TradeMessage(100 + (i % 2), QtyScale, i % 3 = 0)

BurstTime(i) == 2 * i

\* trade buffers one trade short of the micro window and of the capacity
BurstSizes == {14, 19, 999}

InitBurst ==
    \E v \in Variants, n \in BurstSizes :
        LET trs == [i \in 1..n |-> TradeOf(BurstMessage(i), BurstTime(i))]
            st  == Recompute(v,
                       [InitialState(v) EXCEPT
                            !.price = trs[n].p,
                            !.void_kinetic = Kinetic(trs, BurstTime(n)),
                            !.void_elasticity = Elasticity(v, trs, Zero)],
                       << >>)
        IN  /\ variant = v
            /\ state = [st EXCEPT !.titans = 1]
            /\ arrays = << st.titans >>
            /\ snaps = << state >>
            /\ issued = << st >>
            /\ voidState = state
            /\ ws = 1
            /\ sockets = << "open" >>
            /\ via = 1
            /\ trades = trs
            /\ book_bids = EmptyMap
            /\ book_asks = EmptyMap
            /\ imbalance_hist = << >>
            /\ now = BurstTime(n)
            /\ msg = BurstMessage(n)
            /\ published = << state >>
            /\ log = trs
            /\ steps = 0

----------------------------------------------------------------------------
(* ws.onmessage: one action per kind of message, each the whole handler    *)

\* an engine that rewrites the rows of the array it already has
TitansTarget_InPlace(st, arrs) == st.titans

\* `this.state.titans = [ ... ]`: the literal is a new array object
TitansTarget(st, arrs) == Len(arrs) + 1

\* the array objects once the rows are written to the object `ref`
StoreTitans(arrs, ref, rows) ==
    [i \in 1..(IF ref > Len(arrs) THEN ref ELSE Len(arrs)) |->
        IF i = ref THEN rows ELSE arrs[i]]

\* if (this.onUpdate) this.onUpdate({...this.state})
Publish(st) == << st >>

\* the tail of the handler, from the metrics `st` and the history `hist`:
\* updateRegime(), calculateMonolith(), then the callback with a copy of
\* this.state, which the subscriber copies into voidState
Finish(st, hist) ==
    \E r \in {Recompute(variant, st, hist)} :
        \E ref \in {TitansTarget(state, arrays)} :
            /\ state' = [r EXCEPT !.titans = ref]
            /\ arrays' = StoreTitans(arrays, ref, r.titans)
            /\ published' = Publish(state')
            /\ snaps' = Append(snaps, state')
            /\ issued' = Append(issued, r)
            /\ voidState' = state'

\* stream.includes('aggTrade'), in the onmessage of socket h
OnTradeVia(h) ==
    /\ steps < MaxSteps
    /\ \E p \in TradePrices, q \in TradeQuantities, m \in BOOLEAN,
          dt \in ClockSteps :
        \E r \in {ProcessTrade(variant, state, trades, p, q, m, now + dt)} :
            /\ Finish(r.state, imbalance_hist)
            /\ trades' = r.trades
            /\ now' = now + dt
            /\ msg' = TradeMessage(p, q, m)
            /\ log' = Append(log, TradeOf(TradeMessage(p, q, m), now + dt))
    /\ steps' = steps + 1
    /\ via' = h
    /\ UNCHANGED <<variant, book_bids, book_asks, imbalance_hist, ws, sockets>>

\* stream.includes('depth'), in the onmessage of socket h
OnDepthVia(h) ==
    /\ steps < MaxSteps
    /\ \E u \in DepthUpdates :
        \E r \in {ProcessBook(book_bids, book_asks, imbalance_hist,
                              state.void_pressure, u[1], u[2])} :
            /\ Finish([state EXCEPT !.void_pressure = r.void_pressure],
                      r.imbalance_hist)
            /\ book_bids' = r.book_bids
            /\ book_asks' = r.book_asks
            /\ imbalance_hist' = r.imbalance_hist
            /\ msg' = DepthMessage(u[1], u[2])
    /\ steps' = steps + 1
    /\ via' = h
    /\ UNCHANGED <<variant, trades, now, log, ws, sockets>>

\* any other stream name: neither branch runs, the recompute and publish do
OnOtherVia(h) ==
    /\ steps < MaxSteps
    /\ Finish(state, imbalance_hist)
    /\ msg' = OtherMessage
    /\ steps' = steps + 1
    /\ via' = h
    /\ UNCHANGED <<variant, trades, book_bids, book_asks, imbalance_hist,
                   now, log, ws, sockets>>

\* the messages of the socket in this.ws
OnTrade == OnTradeVia(ws)

OnDepth == OnDepthVia(ws)

OnOther == OnOtherVia(ws)

Next == OnTrade \/ OnDepth \/ OnOther

Spec == Init /\ [][Next]_vars

\* the same engine with an imbalance history close to its capacity
SpecCapacity == InitCapacity /\ [][Next]_vars

\* the same engine with an imbalance history close to a regime threshold
SpecThresholds == InitThresholds /\ [][Next]_vars

\* a burst of trades: the feed delivers no depth message during the burst
NextBurst == OnTrade \/ OnOther

SpecBurst == InitBurst /\ [][NextBurst]_vars

\* trade buffers around the micro-burst window: one trade of 60 followed by
\* trades of 0.0001 up to the window's length; one trade of 0.0099, just
\* short of the volume floor; a burst one trade short of the window
MicroBuffers(v) ==
    { [i \in 1..MicroWindow(v) |->
          TradeOf(TradeMessage(IF i = 1 THEN 100 ELSE 101,
                               IF i = 1 THEN 60 * QtyScale ELSE 1, FALSE),
                  BurstTime(i))],
      << TradeOf(TradeMessage(100, 99, FALSE), BurstTime(1)) >>,
      [i \in 1..(MicroWindow(v) - 1) |->
          TradeOf(BurstMessage(i), BurstTime(i))] }

InitMicro ==
    \E v \in Variants :
        \E trs \in MicroBuffers(v) :
            LET n  == Len(trs)
                st == Recompute(v,
                          [InitialState(v) EXCEPT
                               !.price = trs[n].p,
                               !.void_kinetic = Kinetic(trs, trs[n].t),
                               !.void_elasticity = Elasticity(v, trs, Zero)],
                          << >>)
            IN  /\ variant = v
                /\ state = [st EXCEPT !.titans = 1]
                /\ arrays = << st.titans >>
                /\ snaps = << state >>
                /\ issued = << st >>
                /\ voidState = state
                /\ ws = 1
                /\ sockets = << "open" >>
                /\ via = 1
                /\ trades = trs
                /\ book_bids = EmptyMap
                /\ book_asks = EmptyMap
                /\ imbalance_hist = << >>
                /\ now = trs[n].t
                /\ msg = TradeMessage(trs[n].p, trs[n].q, ~trs[n].b)
                /\ published = << state >>
                /\ log = trs
                /\ steps = 0

\* the first trades of an engine, and trades around the micro-burst window
InitFirstTrades == InitCold \/ InitMicro

SpecMicro == InitFirstTrades /\ [][NextBurst]_vars

----------------------------------------------------------------------------
(* A subscriber that writes to the snapshots it was handed.  The callback  *)
(* of GdmLiveAudio only copies its argument; the writes below are what any *)
(* holder of a snapshot object can do to it.                               *)

\* snapshot.signal = "MUTATED"
MutateScalar(i) ==
    /\ snaps' = [snaps EXCEPT ![i].signal = "MUTATED"]
    /\ UNCHANGED arrays

\* snapshot.titans.length = 0
MutateList(i) ==
    /\ arrays' = [arrays EXCEPT ![snaps[i].titans] = << >>]
    /\ UNCHANGED snaps

\* snapshot.titans[0].active = true
MutateRow(i) ==
    /\ arrays[snaps[i].titans] # << >>
    /\ arrays' = [arrays EXCEPT ![snaps[i].titans][1].active = TRUE]
    /\ UNCHANGED snaps

SubscriberMutates ==
    /\ \E i \in 1..Len(snaps) : MutateScalar(i) \/ MutateList(i) \/ MutateRow(i)
    /\ UNCHANGED <<variant, state, trades, book_bids, book_asks,
                   imbalance_hist, now, msg, published, log, steps, issued,
                   voidState, ws, sockets, via>>

NextSubscriber == Next \/ SubscriberMutates

SpecSubscriber == InitCold /\ [][NextSubscriber]_vars

----------------------------------------------------------------------------
(* VoidEngine.connect called again, and the socket it replaced.  close()   *)
(* starts the closing handshake; the onmessage installed on the old socket *)
(* is the same closure over the engine, and whether the runtime still      *)
(* dispatches a message that was in flight is the runtime's choice.        *)

\* the number of WebSocket objects created
MaxSockets == 2

\* if (this.ws) this.ws.close(); this.ws = new WebSocket(wsUrl); ...
Connect ==
    /\ Len(sockets) < MaxSockets
    /\ sockets' = Append(IF ws # 0 THEN [sockets EXCEPT ![ws] = "closed"]
                                   ELSE sockets,
                         "open")
    /\ ws' = Len(sockets) + 1
    /\ UNCHANGED <<variant, state, trades, book_bids, book_asks,
                   imbalance_hist, now, msg, published, log, steps, arrays,
                   snaps, issued, voidState, via>>

\* the onmessage of a socket that is no longer in this.ws
OnStale ==
    \E h \in 1..Len(sockets) :
        /\ h # ws
        /\ OnTradeVia(h) \/ OnDepthVia(h) \/ OnOtherVia(h)

NextReconnect == Next \/ Connect \/ OnStale

SpecReconnect == Init /\ [][NextReconnect]_vars

----------------------------------------------------------------------------
(* Messages that are not what the feed's contract describes *)

MalformedMessage(kind) == [stream |-> "malformed", kind |-> kind]

\* what makes the handler throw before it has written anything: JSON.parse
\* of the text, stream.includes on an absent stream, data.p or data.b on an
\* absent data
ThrowsAtOnce ==
    {"unparseable", "no stream", "aggTrade without data", "depth without data"}

\* the handler throws: nothing after the throw runs, the callback included
OnMalformedThrows ==
    /\ \E kind \in ThrowsAtOnce : msg' = MalformedMessage(kind)
    /\ UNCHANGED <<state, trades, book_bids, book_asks, imbalance_hist, now,
                   published, log, arrays, snaps, issued, voidState>>

\* a stream that is neither aggTrade nor depth, without data: data is never
\* read, the handler runs to its end
OnMalformedOther ==
    /\ Finish(state, imbalance_hist)
    /\ msg' = MalformedMessage("other stream without data")
    /\ UNCHANGED <<trades, book_bids, book_asks, imbalance_hist, now, log>>

\* an aggTrade whose price is not a number: processTrade(parseFloat(data.p), ...)
\* with NaN
OnMalformedPrice ==
    \E q \in TradeQuantities, m \in BOOLEAN, dt \in ClockSteps :
        \E r \in {ProcessTrade(variant, state, trades, PriceNaN, q, m, now + dt)} :
            /\ Finish(r.state, imbalance_hist)
            /\ trades' = r.trades
            /\ now' = now + dt
            /\ msg' = MalformedMessage("non-numeric price")
            /\ log' = Append(log, TradeOf(TradeMessage(PriceNaN, q, m), now + dt))
            /\ UNCHANGED <<book_bids, book_asks, imbalance_hist>>

\* a depth message with bids and no asks: bids.forEach has run when
\* asks.forEach throws
OnMalformedDepth ==
    /\ \E b \in SideUpdates(BidPrices) : book_bids' = ApplySide(book_bids, b)
    /\ msg' = MalformedMessage("depth without asks")
    /\ UNCHANGED <<state, trades, book_asks, imbalance_hist, now, published,
                   log, arrays, snaps, issued, voidState>>

OnMalformed ==
    /\ steps < MaxSteps
    /\ OnMalformedThrows \/ OnMalformedOther \/ OnMalformedPrice
           \/ OnMalformedDepth
    /\ steps' = steps + 1
    /\ via' = ws
    /\ UNCHANGED <<variant, ws, sockets>>

NextMalformed == Next \/ OnMalformed

SpecMalformed == Init /\ [][NextMalformed]_vars

----------------------------------------------------------------------------
(* The wall clock between two messages.  Date.now() is read by            *)
(* processTrade only (lines 627, 828): while no message arrives nothing   *)
(* of the engine runs, and a depth message runs no code that reads it.    *)

\* a silence longer than the kinetic window, in ms
IdleGaps == {(KINETIC_WINDOW_SEC + 1) * MsPerSec}

\* the clock moves on after a trade, no handler running
Idle ==
    /\ trades # << >>
    /\ now = trades[Len(trades)].t
    /\ \E dt \in IdleGaps : now' = now + dt
    /\ UNCHANGED <<variant, state, trades, book_bids, book_asks,
                   imbalance_hist, msg, published, log, steps, arrays,
                   snaps, issued, voidState, ws, sockets, via>>

NextIdle == Next \/ Idle

SpecIdle == Init /\ [][NextIdle]_vars

----------------------------------------------------------------------------
(* Properties *)

\* the handler has run at least once
Ticked == published # << >>

One == <<1, 1>>

\* C1: after each trade the buffer holds at most 1000 trades, and they are
\* the most recent min(n, 1000) of the n trades processed, in arrival order
C1_BufferIsMostRecent ==
    LET n == Len(log)
        k == IF n < 1000 THEN n ELSE 1000
    IN  /\ Len(trades) <= 1000
        /\ Len(trades) = k
        /\ \A i \in 1..k : trades[i] = log[n - k + i]

\* a trade has just been handled and older trades have been evicted
C1_Witness ==
    /\ msg.stream = "aggTrade"
    /\ steps > 0
    /\ Len(log) > 1000
    /\ Len(trades) = 1000

\* buy quantity minus sell quantity over the trades s[lo..Len(s)] whose
\* timestamp lies in (t - 3 s, t]
NetFlow(s, lo, t) ==
    LET in(i) == s[i].t > t - 3000 /\ s[i].t <= t
        signed == [i \in lo..Len(s) |->
                      IF in(i) THEN (IF s[i].b THEN s[i].q ELSE -s[i].q) ELSE 0]
    IN  SumRange(signed, lo, Len(s))

\* C2 as stated: right after a trade handled at time now, kinetic is the net
\* flow over ALL trades processed so far with a timestamp in (now-3, now]
C2_KineticOverAllProcessed ==
    msg.stream = "aggTrade" => state.void_kinetic = NetFlow(log, 1, now)

\* C2 amended: right after a trade handled at time now, kinetic is the net
\* flow over the trades still in the buffer (the most recent 1000 processed)
\* with a timestamp in (now-3, now]
C2_KineticOverRetained ==
    msg.stream = "aggTrade" =>
        state.void_kinetic =
            NetFlow(log, IF Len(log) > 1000 THEN Len(log) - 999 ELSE 1, now)

\* a trade has just been handled, some processed trades are older than the
\* window and some lie inside it
C2_Witness ==
    /\ msg.stream = "aggTrade"
    /\ steps > 0
    /\ \E i \in 1..Len(trades) : trades[i].t <= now - 3000
    /\ \E i \in 1..(Len(trades) - 1) : trades[i].t > now - 3000
    /\ state.void_kinetic # 0

\* C3 as stated: pressure and every imbalance sample lie in [-1, 1]
C3_PressureInRange ==
    /\ RLe(RAbs(state.void_pressure), One)
    /\ \A i \in 1..Len(imbalance_hist) : RLe(RAbs(imbalance_hist[i]), One)

\* what one side's map must be after the updates `ups` (at most one) of a
\* depth message: (p, 0) removes exactly p, (p, q) with q # 0 stores q at p,
\* and every other level is as before
SideAsClaimed(before, after, ups) ==
    IF ups = << >> THEN after = before
    ELSE LET p == ups[1][1]
             q == ups[1][2]
         IN  /\ \A x \in (DOMAIN before) \ {p} :
                    x \in DOMAIN after /\ after[x] = before[x]
             /\ IF q = 0
                THEN DOMAIN after = (DOMAIN before) \ {p}
                ELSE /\ DOMAIN after = (DOMAIN before) \cup {p}
                     /\ after[p] = q

\* C4: on either side, an update (p, 0) removes exactly the entry for p and
\* an update (p, q), q # 0, makes the map hold q at p; other levels are kept
C4_ZeroRemovesNonZeroRestores ==
    [][msg'.stream = "depth" =>
          /\ SideAsClaimed(book_bids, book_bids', msg'.b)
          /\ SideAsClaimed(book_asks, book_asks', msg'.a)]_vars

\* the best bid 100 of a warm book has just been removed while the bid
\* level 99, added by the message before, stays
C4_Witness ==
    /\ msg.stream = "depth"
    /\ msg.b = << <<100, 0>> >>
    /\ DOMAIN book_bids = {99}
    /\ Len(imbalance_hist) > 10
    /\ steps = 2

\* C5: when a depth message leaves the bid map or the ask map empty,
\* pressure keeps its value and the imbalance history gets no sample
C5_FreezeWhenOneSided ==
    [][(msg'.stream = "depth" /\ BookOneSided(book_bids', book_asks')) =>
          /\ state'.void_pressure = state.void_pressure
          /\ imbalance_hist' = imbalance_hist]_vars

\* a depth message has just emptied a side while pressure was not zero
C5_Witness ==
    /\ msg.stream = "depth"
    /\ steps > 0
    /\ BookOneSided(book_bids, book_asks)
    /\ state.void_pressure # Zero
    /\ imbalance_hist # << >>

\* C6: the history never exceeds 120 samples; a depth message that leaves
\* both sides non-empty appends the pressure just computed, dropping the
\* oldest sample when the length would exceed 120; other messages append nothing
C6_HistoryBounded ==
    /\ [](Len(imbalance_hist) <= 120)
    /\ [][IF msg'.stream = "depth" /\ ~BookOneSided(book_bids', book_asks')
          THEN imbalance_hist' =
                   IF Len(imbalance_hist) < 120
                   THEN Append(imbalance_hist, state'.void_pressure)
                   ELSE Append(Tail(imbalance_hist), state'.void_pressure)
          ELSE imbalance_hist' = imbalance_hist]_vars

\* two samples were appended to a history of 119: the oldest one is gone
C6_Witness ==
    /\ msg.stream = "depth"
    /\ steps = 2
    /\ Len(imbalance_hist) = 120
    /\ imbalance_hist[1] = Zero
    /\ imbalance_hist[120] = state.void_pressure

Classified == {"STAGNATION", "EQUILIBRIUM", "VOLATILITY",
               "STAGNANT", "STABLE", "VOLATILE"}

\* C7: after every message the regime is CALCULATING exactly when the
\* history holds 10 samples or fewer; with more it is a classified value,
\* and it never returns to CALCULATING
C7_PlaceholderUntilElevenSamples ==
    /\ []((state.domain_state = "CALCULATING") <=> (Len(imbalance_hist) <= 10))
    /\ [](Len(imbalance_hist) > 10 => state.domain_state \in Classified)
    /\ [][state.domain_state # "CALCULATING"
              => state'.domain_state # "CALCULATING"]_vars

\* the eleventh sample has just arrived and the regime is classified
C7_Witness ==
    /\ msg.stream = "depth"
    /\ steps = 1
    /\ Len(imbalance_hist) = 11
    /\ state.domain_state \in Classified

\* the population variance E[x^2] - E[x]^2 of the samples
PopulationVariance(hist) ==
    LET n  == Len(hist)
        L  == CommonDen(hist)
        s1 == SumRange([i \in 1..n |-> hist[i][1] * (L \div hist[i][2])], 1, n)
        s2 == SumRange([i \in 1..n |-> (hist[i][1] * (L \div hist[i][2]))
                                        * (hist[i][1] * (L \div hist[i][2]))],
                       1, n)
    IN  Rat(n * s2 - s1 * s1, n * n * L * L)

\* the regime the claim gives a history: volatility below 0.10 is stagnant,
\* volatility at least 0.35 (A) or 0.40 (B) is volatile, the rest is the
\* middle regime; squares are compared, volatility being a square root
RegimeAsClaimed(v, hist) ==
    LET var  == PopulationVariance(hist)
        low  == <<1, 100>>
        high == IF v = "A" THEN <<1225, 10000>> ELSE <<16, 100>>
    IN  IF RLt(var, low) THEN (IF v = "A" THEN "STAGNATION" ELSE "STAGNANT")
        ELSE IF RLe(high, var) THEN (IF v = "A" THEN "VOLATILITY" ELSE "VOLATILE")
        ELSE (IF v = "A" THEN "EQUILIBRIUM" ELSE "STABLE")

\* C8: with more than 10 samples the regime is a function of the retained
\* history alone: stagnant below the low threshold, volatile above the high
\* one, the middle regime between, a volatility equal to a threshold falling
\* in the higher regime
C8_RegimeFromHistory ==
    Len(imbalance_hist) > 10 =>
        state.domain_state = RegimeAsClaimed(variant, imbalance_hist)

\* a depth message has just brought the volatility to exactly 0.10
C8_Witness ==
    /\ msg.stream = "depth"
    /\ steps > 0
    /\ Len(imbalance_hist) > 10
    /\ PopulationVariance(imbalance_hist) = <<1, 100>>
    /\ state.domain_state \in {"EQUILIBRIUM", "STABLE"}

\* the same for the high threshold of each variant, and for volatility 0.25
C8_ReachedHighThreshold ==
    /\ steps > 0
    /\ Len(imbalance_hist) > 10
    /\ PopulationVariance(imbalance_hist) =
           (IF variant = "A" THEN Rat(1225, 10000) ELSE Rat(16, 100))
    /\ state.domain_state \in {"VOLATILITY", "VOLATILE"}

C8_ReachedQuarter ==
    /\ steps > 0
    /\ Len(imbalance_hist) > 10
    /\ PopulationVariance(imbalance_hist) = <<1, 16>>
    /\ state.domain_state \in {"EQUILIBRIUM", "STABLE"}

\* the factors as the claim states them, on the current metrics
FactorKinetic == Abs(state.void_kinetic) > 50 * QtyScale

FactorPressure == 10 * Abs(state.void_pressure[1]) > 3 * state.void_pressure[2]

FactorElasticity == Abs(state.void_elasticity[1]) > 2 * state.void_elasticity[2]

FactorRegime == state.domain_state \in {"VOLATILITY", "VOLATILE"}

\* sign(kinetic) agrees with sign(pressure), sign(0) being 0
FactorSignsAgree == Sign(state.void_kinetic) = Sign(state.void_pressure[1])

\* kinetic and pressure are both positive or both negative
FactorSameNonZeroSign ==
    Sign(state.void_kinetic) * Sign(state.void_pressure[1]) = 1

FlagVectors == [1..5 -> BOOLEAN]

\* turning one more factor true, the others fixed, never lowers the score
ScoreMonotone ==
    \A v \in Variants : \A f \in FlagVectors : \A i \in 1..5 :
        LET g == [f EXCEPT ![i] = TRUE]
        IN  StarCount(v, f[1], f[2], f[3], f[4], f[5])
                <= StarCount(v, g[1], g[2], g[3], g[4], g[5])

\* C9 as stated: after every tick the score is the number of true factors,
\* the fifth (star-count policy only) being that the signs of kinetic and
\* pressure agree; so it is in 0..5 and monotone in the factors
C9_ScoreCountsFactors ==
    (Ticked /\ steps > 0) =>
        /\ state.monolith_stars =
               B2N(FactorKinetic) + B2N(FactorPressure) + B2N(FactorElasticity)
                   + B2N(FactorRegime)
                   + (IF variant = "A" THEN B2N(FactorSignsAgree) ELSE 0)
        /\ state.monolith_stars \in 0..5
        /\ ScoreMonotone

\* C9 amended: the fifth factor is that kinetic and pressure are both
\* positive or both negative (it is false when either is zero)
C9_ScoreCountsFactorsNonZero ==
    Ticked =>
        /\ state.monolith_stars =
               B2N(FactorKinetic) + B2N(FactorPressure) + B2N(FactorElasticity)
                   + B2N(FactorRegime)
                   + (IF variant = "A" THEN B2N(FactorSameNonZeroSign) ELSE 0)
        /\ state.monolith_stars \in 0..5
        /\ ScoreMonotone

\* all five factors hold after a tick of the star-count policy
C9_Witness ==
    /\ Ticked
    /\ steps > 0
    /\ variant = "A"
    /\ state.monolith_stars = 5
    /\ FactorSameNonZeroSign

\* C10: under the star-count policy the signal after a tick is EXECUTE LONG
\* or EXECUTE SHORT (by kinetic > 0) for a score of 4 or more, PREPARE for 3,
\* STANDBY below; kinetic 60, pressure 0, elasticity 3.0 in the volatile
\* regime gives score 3 and PREPARE
C10_SignalFromScore ==
    (Ticked /\ variant = "A") =>
        /\ state.signal =
               IF state.monolith_stars >= 4
               THEN (IF state.void_kinetic > 0 THEN "EXECUTE LONG"
                                               ELSE "EXECUTE SHORT")
               ELSE IF state.monolith_stars = 3 THEN "PREPARE"
               ELSE "STANDBY"
        /\ LET s == CalculateMonolith("A",
                        [InitialState("A") EXCEPT
                             !.void_kinetic = 60 * QtyScale,
                             !.void_pressure = Zero,
                             !.void_elasticity = <<3, 1>>,
                             !.domain_state = "VOLATILITY"])
           IN  s.monolith_stars = 3 /\ s.signal = "PREPARE"

\* a tick of the star-count policy ended with a score of 4 and kinetic < 0
C10_Witness ==
    /\ Ticked
    /\ steps > 0
    /\ variant = "A"
    /\ state.monolith_stars = 4
    /\ state.void_kinetic < 0
    /\ state.signal = "EXECUTE SHORT"

C10_ReachedPrepare ==
    /\ steps > 0
    /\ variant = "A"
    /\ state.monolith_stars = 3
    /\ state.signal = "PREPARE"

\* the first matching guard of the claim, for kinetic k (in 1/QtyScale) and
\* elasticity e = n / d
FirstGuard(k, e) ==
    LET n == e[1]
        d == e[2]
    IN  IF k > 50 * QtyScale /\ 2 * n < d THEN "SHORT (TRAP)"
        ELSE IF k > 50 * QtyScale /\ n > 2 * d THEN "LONG (BREAK)"
        ELSE IF k < -50 * QtyScale /\ 2 * n > -d THEN "LONG (TRAP)"
        ELSE IF k < -50 * QtyScale /\ n < -2 * d THEN "SHORT (BREAK)"
        ELSE "OBSERVE"

\* kinetic and elasticity values on and around the guards' thresholds
GuardKinetics == {-60 * QtyScale, -50 * QtyScale, 0, 50 * QtyScale, 60 * QtyScale}

GuardElasticities ==
    { <<-3, 1>>, <<-2, 1>>, <<-1, 1>>, <<-1, 2>>, <<-3, 10>>, Zero,
      <<3, 10>>, <<1, 2>>, <<1, 1>>, <<2, 1>>, <<3, 1>> }

\* calculateMonolith of variant B gives every grid value the signal of its
\* first matching guard, whatever the pressure and the regime
FirstGuardOnGrid ==
    \A k \in GuardKinetics, e \in GuardElasticities,
       p \in {Zero, Skew}, d \in {"STABLE", "VOLATILE"} :
        CalculateMonolith("B",
            [InitialState("B") EXCEPT
                 !.void_kinetic = k, !.void_pressure = p,
                 !.void_elasticity = e, !.domain_state = d]).signal
            = FirstGuard(k, e)

\* the scenario of the claim: kinetic 60, elasticity 0.3
TrapScenario ==
    CalculateMonolith("B",
        [InitialState("B") EXCEPT
             !.void_kinetic = 60 * QtyScale,
             !.void_elasticity = <<3, 10>>]).signal = "SHORT (TRAP)"

\* C11: under the trap/break policy the signal after a tick is that of the
\* first matching guard (SHORT (TRAP), LONG (BREAK), LONG (TRAP),
\* SHORT (BREAK), else OBSERVE) whatever the score; kinetic 60 with
\* elasticity 0.3 gives SHORT (TRAP)
C11_SignalFromFirstGuard ==
    (Ticked /\ variant = "B") =>
        /\ state.signal = FirstGuard(state.void_kinetic, state.void_elasticity)
        /\ FirstGuardOnGrid
        /\ TrapScenario

\* a tick of the trap/break policy ended on the last guard of the chain
C11_Witness ==
    /\ Ticked
    /\ steps > 0
    /\ variant = "B"
    /\ state.void_kinetic < -50 * QtyScale
    /\ state.void_elasticity[1] < -2 * state.void_elasticity[2]
    /\ state.signal = "SHORT (BREAK)"

\* each of the other outcomes is reached too
C11_ReachedAllOutcomes ==
    /\ steps > 0
    /\ variant = "B"
    /\ state.signal \in {"SHORT (TRAP)", "LONG (BREAK)", "LONG (TRAP)", "OBSERVE"}

\* the rows of the live titans list
LiveRows == arrays[state.titans]

\* the names of the static rows that stand for no computed factor
PlaceholderNames(v) == IF v = "A" THEN {"BASIS"} ELSE {"BASIS", "WA"}

\* the row names of each policy, in order
RowNames(v) ==
    IF v = "A"
    THEN <<"CTD (Kinetic)", "OBI (Pressure)", "LQ  (Elasticity)", "BASIS",
           "WA  (Whale)">>
    ELSE <<"CTD (Kinetic)", "OBI (Pressure)", "LQ  (Elasticity)", "BASIS", "WA">>

\* the number of factors the score counts
FactorCount(v) == IF v = "A" THEN 5 ELSE 4

FactorRows(v, rows) ==
    {i \in 1..Len(rows) : rows[i].name \notin PlaceholderNames(v)}

ActiveFactorRows(v, rows) == {i \in FactorRows(v, rows) : rows[i].active}

\* the score is the number of active rows that are not placeholders
C12_ScoreIsActiveRows ==
    (Ticked /\ steps > 0) =>
        state.monolith_stars = Cardinality(ActiveFactorRows(variant, LiveRows))

\* C12 as stated: after every tick the titans list has its fixed order, one
\* row for each factor the score counts with that factor's truth value as
\* its active flag, plus placeholder rows, and the score is the number of
\* active rows that are not placeholders
C12_RowPerFactor ==
    (Ticked /\ steps > 0) =>
        /\ [i \in 1..Len(LiveRows) |-> LiveRows[i].name] = RowNames(variant)
        /\ LiveRows[1].active = FactorKinetic
        /\ LiveRows[2].active = FactorPressure
        /\ LiveRows[3].active = FactorElasticity
        /\ variant = "A" => LiveRows[5].active = FactorSameNonZeroSign
        /\ Cardinality(FactorRows(variant, LiveRows)) = FactorCount(variant)
        /\ state.monolith_stars = Cardinality(ActiveFactorRows(variant, LiveRows))

\* what an object with a titans reference holds, rows included
Deep(obj) == [obj EXCEPT !.titans = arrays[obj.titans]]

\* C13: every snapshot handed to the subscriber holds, in every field and
\* in the rows of its titans list, what it held when it was handed out,
\* whatever ticks followed
C13_SnapshotsKeepTheirValue ==
    \A i \in 1..Len(snaps) : Deep(snaps[i]) = issued[i]

\* two ticks after a snapshot was handed out the live state differs from it
\* in a scalar field and in its rows
C13_Witness ==
    /\ steps = 2
    /\ Len(snaps) >= 2
    /\ \E i \in 1..(Len(snaps) - 1) :
           /\ snaps[i].price # state.price
           /\ arrays[snaps[i].titans] # arrays[state.titans]
           /\ arrays[snaps[i].titans] # << >>

\* the snapshots whose content differs between the two states of a step
ChangedSnapshots ==
    {i \in 1..Len(snaps) : Deep(snaps[i])' # Deep(snaps[i])}

\* C14 as stated: a write by the subscriber to a snapshot (a scalar field,
\* the titans list, a row of it) changes neither the content of the
\* engine's live state nor any other snapshot
C14_WritesStayInTheSnapshot ==
    [][SubscriberMutates =>
          /\ Deep(state)' = Deep(state)
          /\ Cardinality(ChangedSnapshots) <= 1]_vars

\* the engine state the claims name: the metrics and verdict, the trade
\* buffer, the book maps and the imbalance history
EngineContent ==
    <<Deep(state), trades, book_bids, book_asks, imbalance_hist>>

\* C15 as stated: a socket that is not the installed one is closed, and a
\* message delivered through the onmessage of such a socket changes no
\* engine state and hands out no snapshot
C15_NoStaleDelivery ==
    /\ [](\A h \in 1..Len(sockets) : h # ws => sockets[h] = "closed")
    /\ [][(steps' = steps + 1 /\ via' # ws') =>
              /\ EngineContent' = EngineContent
              /\ snaps' = snaps]_vars

\* C16 as stated: a malformed message leaves the trade buffer, the book
\* maps, the imbalance history and every field of the state as they were
C16_MalformedIsDropped ==
    [][(steps' = steps + 1 /\ msg'.stream = "malformed") =>
          EngineContent' = EngineContent]_vars

\* the score and the signal the policy of variant v gives the metrics and
\* the regime held by the snapshot s
PolicyScore(v, s) ==
    B2N(Abs(s.void_kinetic) > 50 * QtyScale)
        + B2N(10 * Abs(s.void_pressure[1]) > 3 * s.void_pressure[2])
        + B2N(Abs(s.void_elasticity[1]) > 2 * s.void_elasticity[2])
        + B2N(s.domain_state \in {"VOLATILITY", "VOLATILE"})
        + (IF v = "A"
           THEN B2N(Sign(s.void_kinetic) * Sign(s.void_pressure[1]) = 1)
           ELSE 0)

PolicySignal(v, s) ==
    IF v = "B" THEN FirstGuard(s.void_kinetic, s.void_elasticity)
    ELSE IF PolicyScore(v, s) >= 4
         THEN (IF s.void_kinetic > 0 THEN "EXECUTE LONG" ELSE "EXECUTE SHORT")
    ELSE IF PolicyScore(v, s) = 3 THEN "PREPARE"
    ELSE "STANDBY"

\* C17: every delivered message hands out exactly one snapshot, a copy of
\* the state the handler ends in; so in every snapshot handed out the score
\* and the signal are what the policy gives that snapshot's own kinetic,
\* pressure, elasticity and regime
C17_OneSnapshotAfterRecompute ==
    /\ [](\A i \in 1..Len(snaps) :
             /\ snaps[i].monolith_stars = PolicyScore(variant, snaps[i])
             /\ snaps[i].signal = PolicySignal(variant, snaps[i]))
    /\ [][steps' = steps + 1 =>
              /\ Len(snaps') = Len(snaps) + 1
              /\ SubSeq(snaps', 1, Len(snaps)) = snaps
              /\ snaps'[Len(snaps')] = state']_vars

\* the tick that turned the regime volatile handed out a snapshot whose
\* score counts the new regime
C17_Witness ==
    /\ steps > 0
    /\ Len(snaps) >= 2
    /\ snaps[Len(snaps) - 1].domain_state = "CALCULATING"
    /\ snaps[Len(snaps)].domain_state \in {"VOLATILITY", "VOLATILE"}
    /\ snaps[Len(snaps)].monolith_stars >= 2
    /\ snaps[Len(snaps)] = state

\* the quantities at the best levels of the mirror
BestBidQty == book_bids[SetMax(DOMAIN book_bids)]

BestAskQty == book_asks[SetMin(DOMAIN book_asks)]

\* C18 as stated: after a depth message that leaves both sides non-empty,
\* pressure is (qb - qa) / (qb + qa) for the quantities qb at the highest
\* bid and qa at the lowest ask of the updated mirror
C18_PressureAtBestLevels ==
    (msg.stream = "depth" /\ steps > 0 /\ ~BookOneSided(book_bids, book_asks))
        => /\ BestBidQty + BestAskQty # 0
           /\ state.void_pressure[1] * (BestBidQty + BestAskQty)
                  = (BestBidQty - BestAskQty) * state.void_pressure[2]

\* the same for books whose best levels hold positive quantities
C18_HoldsOfPositiveQuantities ==
    (msg.stream = "depth" /\ steps > 0 /\ ~BookOneSided(book_bids, book_asks)
        /\ BestBidQty > 0 /\ BestAskQty > 0)
        => state.void_pressure[1] * (BestBidQty + BestAskQty)
               = (BestBidQty - BestAskQty) * state.void_pressure[2]

\* the micro-window of the claim: the last N trades of the buffer, or the
\* whole buffer when it holds fewer
ClaimedWindow ==
    LET N == IF variant = "A" THEN 20 ELSE 15
    IN  IF Len(trades) < N THEN trades
        ELSE SubSeq(trades, Len(trades) - N + 1, Len(trades))

\* the summed quantity of a window, in 1/QtyScale
WindowVolume(w) == SumRange([i \in 1..Len(w) |-> w[i].q], 1, Len(w))

\* (newest price - oldest price) / volume * 10000 over a window
Displacement(w) ==
    Rat((w[Len(w)].p - w[1].p) * 10000 * QtyScale, WindowVolume(w))

\* the window's volume is below, or is exactly, the floor 0.01
BelowFloor(w) == 100 * WindowVolume(w) < QtyScale

AtFloor(w) == 100 * WindowVolume(w) = QtyScale

\* C19 as stated: after a trade, unless the micro-window's volume is below
\* 0.01, elasticity is the displacement formula over the micro-window
C19_ElasticityUnlessBelowFloor ==
    (msg.stream = "aggTrade" /\ steps > 0 /\ ~BelowFloor(ClaimedWindow))
        => state.void_elasticity = Displacement(ClaimedWindow)

\* C19 amended: after a trade, unless the micro-window's volume is at or
\* below 0.01, elasticity is the displacement formula over the micro-window
C19_ElasticityAboveFloor ==
    (msg.stream = "aggTrade" /\ steps > 0 /\ ~BelowFloor(ClaimedWindow)
        /\ ~AtFloor(ClaimedWindow))
        => state.void_elasticity = Displacement(ClaimedWindow)

\* a trade has just moved the window past the oldest trade of the buffer,
\* and the prices at the window's ends differ
C19_Witness ==
    /\ msg.stream = "aggTrade"
    /\ steps > 0
    /\ Len(trades) > Len(ClaimedWindow)
    /\ ~BelowFloor(ClaimedWindow) /\ ~AtFloor(ClaimedWindow)
    /\ ClaimedWindow[1].p # ClaimedWindow[Len(ClaimedWindow)].p
    /\ state.void_elasticity # Zero

\* a trade has just brought the window's volume to exactly 0.01
C19_ReachedFloor ==
    /\ msg.stream = "aggTrade"
    /\ steps > 0
    /\ AtFloor(ClaimedWindow)

\* C20: when a trade is processed and the micro-window's volume is below
\* 0.01, elasticity keeps its value in variant A and becomes 0 in variant B
C20_ThinVolumePolicy ==
    [][(steps' = steps + 1 /\ msg'.stream = "aggTrade" /\ BelowFloor(ClaimedWindow)')
          => state'.void_elasticity =
                 IF variant = "A" THEN state.void_elasticity ELSE Zero]_vars

\* variant A has just kept a non-zero elasticity through a trade that left
\* the window below the floor, its prices all equal
C20_Witness ==
    /\ msg.stream = "aggTrade"
    /\ steps > 0
    /\ variant = "A"
    /\ BelowFloor(ClaimedWindow)
    /\ Len(ClaimedWindow) > 1
    /\ ClaimedWindow[1].p = ClaimedWindow[Len(ClaimedWindow)].p
    /\ state.void_elasticity # Zero

\* variant B has just reset a non-zero elasticity
C20_ReachedReset ==
    /\ msg.stream = "aggTrade"
    /\ steps = 1
    /\ variant = "B"
    /\ BelowFloor(ClaimedWindow)
    /\ issued[1].void_elasticity # Zero
    /\ state.void_elasticity = Zero

\* every level stored in the two maps of the mirror holds a positive quantity
StoredQuantitiesPositive ==
    /\ \A p \in DOMAIN book_bids : book_bids[p] > 0
    /\ \A p \in DOMAIN book_asks : book_asks[p] > 0

\* `denominator > 0 ? ... : 0` takes its second arm on the current mirror
FallbackTaken ==
    /\ ~BookOneSided(book_bids, book_asks)
    /\ ~(BestBidQty + BestAskQty > 0)

\* C21 as stated: every stored level of the bid map and of the ask map has a
\* strictly positive quantity, so with both sides non-empty the sum of the
\* best-bid and best-ask quantities is not zero and the fallback to ratio 0
\* is never taken
C21_StoredQuantitiesPositive ==
    /\ StoredQuantitiesPositive
    /\ ~BookOneSided(book_bids, book_asks) => BestBidQty + BestAskQty # 0
    /\ ~FallbackTaken

\* what the code does keep: no stored level holds the quantity 0
C21_NoZeroStored ==
    /\ \A p \in DOMAIN book_bids : book_bids[p] # 0
    /\ \A p \in DOMAIN book_asks : book_asks[p] # 0

\* a depth message stored a negative quantity and the fallback was taken
C21_ReachedFallback ==
    /\ msg.stream = "depth"
    /\ steps > 0
    /\ FallbackTaken
    /\ state.void_pressure = Zero

\* this step is the handler of a trade message / of a depth message
TradeStep == steps' = steps + 1 /\ msg'.stream = "aggTrade"

DepthStep == steps' = steps + 1 /\ msg'.stream = "depth"

\* C22: a trade event sets price to that trade's price and leaves both book
\* maps, pressure and the imbalance history unchanged; a depth event leaves
\* price, kinetic, elasticity and the trade buffer unchanged, so kinetic
\* stays the net flow computed at the last trade however long ago it was
C22_FrameOfTradeAndDepth ==
    [][ /\ TradeStep =>
            /\ state'.price = msg'.p
            /\ book_bids' = book_bids
            /\ book_asks' = book_asks
            /\ state'.void_pressure = state.void_pressure
            /\ imbalance_hist' = imbalance_hist
        /\ DepthStep =>
            /\ state'.price = state.price
            /\ state'.void_kinetic = state.void_kinetic
            /\ state'.void_elasticity = state.void_elasticity
            /\ trades' = trades
            /\ trades # << >> =>
                   state'.void_kinetic
                       = Kinetic(trades, trades[Len(trades)].t) ]_vars

\* a depth message arrived more than 3 s after the last trade: the book and
\* pressure changed, price is that trade's price, and kinetic is still the
\* trade-time value although the window at the current clock is empty
C22_Witness ==
    /\ msg.stream = "depth"
    /\ trades # << >>
    /\ now > trades[Len(trades)].t + KINETIC_WINDOW_SEC * MsPerSec
    /\ state.price = trades[Len(trades)].p
    /\ state.void_kinetic # 0
    /\ Kinetic(trades, now) = 0
    /\ state.void_pressure # Zero
    /\ published = << state >>

\* a trade arrived on a two-sided book with non-zero pressure and lowered
\* the price
C22_ReachedTradeOnBook ==
    /\ msg.stream = "aggTrade"
    /\ Len(trades) > 1
    /\ state.price = msg.p
    /\ state.price < trades[Len(trades) - 1].p
    /\ ~BookOneSided(book_bids, book_asks)
    /\ state.void_pressure # Zero

\* pressure, elasticity and regime values on both sides of their thresholds
RestPressures == {NegSkew, Zero, Skew}

RestElasticities == {<<-3, 1>>, Zero, <<2, 1>>, <<3, 1>>}

RestRegimes == {Calculating, Stagnant("A"), Stable("A"), Volatile("A")}

\* calculateMonolith of variant A on zero kinetic never scores 4 or executes
NoExecuteAtRest ==
    \A p \in RestPressures, e \in RestElasticities, d \in RestRegimes :
        LET s == CalculateMonolith("A",
                     [InitialState("A") EXCEPT
                          !.void_kinetic = 0, !.void_pressure = p,
                          !.void_elasticity = e, !.domain_state = d])
        IN  /\ s.monolith_stars < 4
            /\ s.signal \notin {"EXECUTE LONG", "EXECUTE SHORT"}

\* C23: under the star-count policy EXECUTE LONG implies kinetic > 0 and
\* EXECUTE SHORT implies kinetic < 0; a score of 4 or more does not occur
\* with kinetic = 0
C23_ExecuteFollowsFlow ==
    variant = "A" =>
        /\ state.signal = "EXECUTE LONG" => state.void_kinetic > 0
        /\ state.signal = "EXECUTE SHORT" => state.void_kinetic < 0
        /\ state.void_kinetic = 0 => state.monolith_stars < 4
        /\ NoExecuteAtRest

\* a tick of the star-count policy ended in EXECUTE LONG on a positive flow
C23_Witness ==
    /\ Ticked
    /\ steps > 0
    /\ variant = "A"
    /\ state.monolith_stars >= 4
    /\ state.signal = "EXECUTE LONG"
    /\ state.void_kinetic > 0

\* the other three factors all hold on a zero flow: score 3, no execution
C23_ReachedThreeAtRest ==
    /\ steps > 0
    /\ variant = "A"
    /\ trades # << >>
    /\ state.void_kinetic = 0
    /\ state.monolith_stars = 3
    /\ state.signal = "PREPARE"

\* the guards that hold of kinetic k and elasticity e
HoldingGuards(k, e) == {i \in DOMAIN GuardSignals : GuardHolds(i, k, e)}

\* every order in which the four guards can be evaluated
GuardOrders ==
    {o \in [DOMAIN GuardSignals -> DOMAIN GuardSignals] :
        \A i, j \in DOMAIN o : o[i] = o[j] => i = j}

\* the signal of an if / else-if chain that tests the guards in order o
SignalInOrder(o, k, e) ==
    LET hits == {j \in DOMAIN o : GuardHolds(o[j], k, e)}
    IN  IF hits = {} THEN "OBSERVE" ELSE GuardSignals[o[SetMin(hits)]]

\* at most one guard holds of (k, e), and every order gives the code's signal
GuardsExclusiveAt(k, e) ==
    /\ Cardinality(HoldingGuards(k, e)) <= 1
    /\ \A o \in GuardOrders : SignalInOrder(o, k, e) = TrapBreakSignal(k, e)

\* the same over kinetic and elasticity values on and around the thresholds,
\* and an elasticity that is not a number
GuardsExclusiveOnGrid ==
    \A k \in GuardKinetics, e \in GuardElasticities \cup {RatNaN} :
        GuardsExclusiveAt(k, e)

\* C24: under the trap/break policy at most one of the four guards holds of
\* any (kinetic, elasticity), so the signal is the same under every
\* evaluation order of the guards
C24_GuardsMutuallyExclusive ==
    /\ GuardsExclusiveOnGrid
    /\ variant = "B" =>
           GuardsExclusiveAt(state.void_kinetic, state.void_elasticity)

\* a tick of the trap/break policy ended on the third guard alone: a sell
\* flow above 50 with elasticity above -0.5
C24_Witness ==
    /\ Ticked
    /\ steps > 0
    /\ variant = "B"
    /\ HoldingGuards(state.void_kinetic, state.void_elasticity) = {3}
    /\ state.signal = "LONG (TRAP)"
    /\ \A o \in GuardOrders :
           SignalInOrder(o, state.void_kinetic, state.void_elasticity)
               = state.signal

\* a tick with a flow above 50 on which no guard holds; the model's trades
\* give no elasticity between the trap ceiling and the break floor, so this
\* is reached under SpecMalformed only, with an elasticity that is not a
\* number
C24_ReachedNoGuard ==
    /\ steps > 0
    /\ variant = "B"
    /\ Abs(state.void_kinetic) > 50 * QtyScale
    /\ HoldingGuards(state.void_kinetic, state.void_elasticity) = {}
    /\ state.signal = "OBSERVE"

==============================================================================
